---- MODULE Spec2Model ----
(***************************************************************************)
(* Dragon Dictation Pro client (src/dragon_mvp.py): the document buffer,   *)
(* the undo/redo history, the recorder, the worker threads and the result  *)
(* queue drained by the Tk main loop.                                      *)
(*                                                                         *)
(* Strings are sequences of tokens (each token a TLA+ string): a word, a   *)
(* punctuation mark, a "{field}" placeholder, " " or "\n".  The spaces     *)
(* between the words of one utterance are left implicit.                   *)
(***************************************************************************)
EXTENDS Integers, Sequences, FiniteSets, TLC

VARIABLES
    is_recording,       \* DictationApp.is_recording
    stream,             \* Recorder._stream: "none", "running" or "stopped"
    frames,             \* Recorder._frames is non-empty
    files,              \* temporary audio files that exist (by owning thread)
    queue,              \* DictationApp.transcription_queue
    active_macro_key,   \* DictationApp.active_macro_key (None is "None")
    field_confidence,   \* DictationApp.field_confidence
    history,            \* DictationApp.history
    redo_stack,         \* DictationApp.redo_stack
    text,               \* content of text_widget, without Tk's final newline
    status,             \* text of status_label
    info,               \* text of info_label
    today,              \* the day datetime.now() falls on
    recordings,         \* recordings started during the run
    clicks,             \* menu, button and key events handled during the run
    threads,            \* every thread started so far, in start order
    main_pc,            \* what the main thread is in: "idle" is the Tk loop
    armed,              \* root.after holds a pending call of process_queue
    last,               \* history variable: the step just taken, the thread
                        \* that took it and the queue item it consumed
    pre,                \* history variable: the document before that step
    enqueued,           \* history variable: number of put() calls so far
    dequeued,           \* history variable: number of get_nowait() returns
    puts,               \* history variable: results put, per thread
    gets                \* history variable: results dequeued, per thread

recVars == <<is_recording, stream, frames>>
docVars == <<text, active_macro_key, field_confidence, history, redo_stack>>
uiVars == <<status, info>>
ghostVars == <<last, pre, enqueued, dequeued, puts, gets>>
envVars == <<recordings, clicks>>
mainVars == <<main_pc, armed>>
vars == <<recVars, files, queue, docVars, uiVars, today, envVars, threads,
          mainVars, ghostVars>>

----------------------------------------------------------------------------
(* Bounds of the model *)

\* recordings the user starts during one run
MaxRecordings == 2
\* capacity of the two deques; stands for maxlen=50 (dragon_mvp.py:61-62)
HistoryMaxLen == 3
\* days the clock can show during one run
MaxDay == 2
\* menu, button and key events the user raises during one run
MaxClicks == 2

----------------------------------------------------------------------------
(* Strings *)

Last(s) == s[Len(s)]

Contains(s, tok) == \E i \in 1..Len(s) : s[i] = tok

RECURSIVE ReplaceAll(_, _, _)
\* str.replace(old, new)
ReplaceAll(s, tok, rep) ==
    IF s = <<>> THEN <<>>
    ELSE (IF Head(s) = tok THEN rep ELSE <<Head(s)>>)
             \o ReplaceAll(Tail(s), tok, rep)

RECURSIVE ReplaceFirst(_, _, _)
\* str.replace(old, new, 1)
ReplaceFirst(s, tok, rep) ==
    IF s = <<>> THEN <<>>
    ELSE IF Head(s) = tok THEN rep \o Tail(s)
    ELSE <<Head(s)>> \o ReplaceFirst(Tail(s), tok, rep)

RECURSIVE JoinUnderscore(_)
\* " ".join(words).replace(" ", "_")
JoinUnderscore(ws) ==
    IF Len(ws) = 1 THEN ws[1] ELSE ws[1] \o "_" \o JoinUnderscore(Tail(ws))

Placeholder(name) == "{" \o name \o "}"

\* datetime.now().strftime("%B %d, %Y")
DateStr(day) == "date-" \o ToString(day)

\* str.lower() on the words the model's utterances use
Lower(w) ==
    CASE w = "Insert" -> "insert"
      [] w = "Set" -> "set"
      [] w = "Process" -> "process"
      [] w = "Undo" -> "undo"
      [] OTHER -> w

\* text.lower().strip().replace(".", "").replace(",", "")
TextLower(u) ==
    LET low == [i \in 1..Len(u) |-> Lower(u[i])]
    IN  SelectSeq(low, LAMBDA w : w \notin {".", ","})

----------------------------------------------------------------------------
(* Configuration and inputs *)

\* config/macros.json as loaded by _load_json
macros ==
    [exam |-> <<"Exam:", "{date}", "Patient:", "{name}">>,
     visit |-> <<"{name}", "{dx}">>]

\* what the transcription service may return as "text"
Utterances ==
    { <<"Process", "note", ".">>,
      <<"Insert", "exam", ".">>,
      <<"insert", "visit">>,
      <<"insert", "nosuch">>,
      <<"set", "name", "to", "jane">>,
      <<"hello">>,
      <<"Undo", ".">>,
      <<"ERROR:", "busy">> }

\* data["fields"] of a /process_note reply, in the order of the JSON object
FieldData(key, isDict, value, confidence) ==
    [key |-> key, dict |-> isDict, value |-> value, confidence |-> confidence]

\* a reply: dict says whether "fields" is a JSON object; null, as in
\* {"fields": null}, is not one
Reply(isDict, fields) == [dict |-> isDict, fields |-> fields]

Replies ==
    { Reply(TRUE, <<>>),
      Reply(TRUE, << FieldData("name", TRUE, "bob", 9),
                     FieldData("date", FALSE, "xmas", 0) >>),
      Reply(TRUE, << FieldData("name", TRUE, "", 5),
                     FieldData("dx", TRUE, "flu", 5) >>),
      Reply(FALSE, <<>>) }

NoData == Reply(TRUE, <<>>)

Item(type, txt, data, req) ==
    [type |-> type, text |-> txt, data |-> data, req |-> req, seq |-> 0]

NoItem == Item("none", <<>>, NoData, 0)

ErrTranscription == <<"ERROR:", "Transcription failed">>
ErrGemini == <<"ERROR:", "Gemini processing failed">>
ErrNoMacro == <<"ERROR:", "No macro loaded to process.">>

EmptyConfidence == [k \in {} |-> 0]

----------------------------------------------------------------------------
(* The text widget and the history deques *)

\* text_widget.get("1.0", tk.END): Tk's END lies after the widget's own final
\* newline, so the content comes back with one "\n" added
TextGet(content) == Append(content, "\n")

\* list.append: no capacity
ListAppend(d, x) == Append(d, x)

\* deque(maxlen=...).append
DequeAppend(d, x) ==
    IF Len(d) >= HistoryMaxLen THEN Append(Tail(d), x) ELSE Append(d, x)

\* deque.pop(): the deque without its right end
DequePop(d) == SubSeq(d, 1, Len(d) - 1)

\* save_to_history: the test of line 166
SavePushes(h, current) == h = <<>> \/ Last(h) # current

\* a save that pushes whatever the top of the history is
AlwaysPush(h, current) == DequeAppend(h, current)

HistoryAfterSave(h, current) ==
    IF SavePushes(h, current) THEN DequeAppend(h, current) ELSE h

RedoAfterSave(h, r, current) ==
    IF SavePushes(h, current) THEN <<>> ELSE r

\* save_to_history called by the thread that owns the widget
save_to_history ==
    /\ history' = HistoryAfterSave(history, TextGet(text))
    /\ redo_stack' = RedoAfterSave(history, redo_stack, TextGet(text))

----------------------------------------------------------------------------
(* History variables *)

\* a queue that hands out its newest item first
get_lifo(q) == [item |-> Last(q), rest |-> SubSeq(q, 1, Len(q) - 1)]

\* a get that empties the queue and returns its oldest item
get_all(q) == [item |-> Head(q), rest |-> <<>>]

\* Queue.get_nowait on a non-empty queue: the item returned, the queue left
get_nowait(q) == [item |-> Head(q), rest |-> Tail(q)]

Document ==
    [text |-> text, active_macro_key |-> active_macro_key,
     field_confidence |-> field_confidence, history |-> history,
     redo_stack |-> redo_stack]

\* the steps process_queue takes on an item it got
TickCommands ==
    {"CommandError", "ProcessNote", "InsertMacro", "InsertUnknown", "SetField",
     "SetFieldNotFound", "AppendText", "GeminiResult", "GeminiSkipped",
     "GeminiRaised", "QueueError"}

Step(cmd, ctx) ==
    /\ last' = [cmd |-> cmd, ctx |-> ctx,
                item |-> IF cmd \in TickCommands THEN get_nowait(queue).item
                         ELSE NoItem]
    /\ pre' = Document

\* Queue.put; the item carries the id of the thread that put it (req) and its
\* arrival number (seq), which the program does not read
Put(item) ==
    /\ queue' = Append(queue, [item EXCEPT !.seq = enqueued + 1])
    /\ enqueued' = enqueued + 1
    /\ puts' = [puts EXCEPT ![item.req] = @ + 1]


\* a thread just started
Thread(kind) ==
    [kind |-> kind, pc |-> IF kind = "note" THEN "start" ELSE "post",
     current |-> <<>>, macro_key |-> "None"]

\* every recording starts one thread and its utterance may start one more; one
\* recording may have been made before the run
MaxThreads == 2 * (MaxRecordings + 1)

----------------------------------------------------------------------------
Init ==
    /\ is_recording = FALSE
    /\ stream = "none"
    /\ frames = FALSE
    /\ files = {}
    /\ queue = <<>>
    /\ active_macro_key = "None"
    /\ field_confidence = EmptyConfidence
    /\ history = <<>>
    /\ redo_stack = <<>>
    /\ text = <<>>
    /\ status = <<"Idle | Press 'r' to Record">>
    /\ info = "Ready"
    /\ today = 1
    /\ recordings = 0
    /\ clicks = 0
    /\ threads = <<>>
    /\ main_pc = "idle"
    /\ armed = TRUE
    /\ last = [cmd |-> "init", ctx |-> "consumer", item |-> NoItem]
    /\ pre = Document
    /\ enqueued = 0
    /\ dequeued = 0
    /\ puts = [i \in 1..MaxThreads |-> 0]
    /\ gets = [i \in 1..MaxThreads |-> 0]

----------------------------------------------------------------------------
(* Recorder and the keyboard listener thread *)

\* Recorder.start_recording
start_recording ==
    /\ frames' = FALSE
    /\ stream' = "running"

\* the InputStream callback of line 503, on the audio thread
AudioCallback ==
    /\ stream = "running"
    /\ ~frames
    /\ frames' = TRUE
    /\ Step("AudioCallback", "audio")
    /\ UNCHANGED <<is_recording, stream, files, queue, docVars, uiVars, today, mainVars,
                   envVars, threads, enqueued, dequeued, puts, gets>>

\* toggle_recording, else branch
ToggleRecordingOn ==
    /\ ~is_recording
    /\ recordings < MaxRecordings
    /\ recordings' = recordings + 1
    /\ status' = <<"Recording...">>
    /\ is_recording' = TRUE
    /\ start_recording
    /\ Step("ToggleRecordingOn", "listener")
    /\ UNCHANGED <<files, queue, docVars, info, today, mainVars, clicks, threads,
                   enqueued, dequeued, puts, gets>>

\* toggle_recording, if branch, with Recorder.stop_recording: no stream or no
\* frames gives None and no thread is started
ToggleRecordingOff ==
    /\ is_recording
    /\ status' = <<"Sending to GPU server...">>
    /\ is_recording' = FALSE
    /\ stream' = IF stream = "none" THEN "none" ELSE "stopped"
    /\ IF stream # "none" /\ frames
       THEN /\ threads' = Append(threads, Thread("transcribe"))
            /\ files' = files \cup {Len(threads) + 1}
       ELSE UNCHANGED <<threads, files>>
    /\ Step("ToggleRecordingOff", "listener")
    /\ UNCHANGED <<frames, queue, docVars, info, today, mainVars, envVars, enqueued,
                   dequeued, puts, gets>>

----------------------------------------------------------------------------
(* transcribe_audio_remote_thread *)

\* a worker whose success path falls into the except clause after its put
TranscribeOkThenError(i, u) ==
    /\ threads[i].kind = "transcribe"
    /\ threads[i].pc = "post"
    /\ queue' = queue \o
                 <<[Item("transcription", u, NoData, i)
                        EXCEPT !.seq = enqueued + 1],
                   [Item("error", ErrTranscription, NoData, i)
                        EXCEPT !.seq = enqueued + 2]>>
    /\ enqueued' = enqueued + 2
    /\ puts' = [puts EXCEPT ![i] = @ + 2]
    /\ files' = files \ {i}
    /\ threads' = [threads EXCEPT ![i].pc = "done"]
    /\ Step("TranscribeOk", "transcribe_worker")
    /\ UNCHANGED <<recVars, docVars, uiVars, today, mainVars, envVars, dequeued, gets>>

\* lines 257-272 and the finally clause: the service answered
TranscribeOk(i, u) ==
    /\ threads[i].kind = "transcribe"
    /\ threads[i].pc = "post"
    /\ Put(Item("transcription", u, NoData, i))
    /\ files' = files \ {i}
    /\ threads' = [threads EXCEPT ![i].pc = "done"]
    /\ Step("TranscribeOk", "transcribe_worker")
    /\ UNCHANGED <<recVars, docVars, uiVars, today, mainVars, envVars, dequeued, gets>>

\* a failure path that leaves the audio file behind
TranscribeErrorKeepsFile(i) ==
    /\ threads[i].kind = "transcribe"
    /\ threads[i].pc = "post"
    /\ Put(Item("error", ErrTranscription, NoData, i))
    /\ threads' = [threads EXCEPT ![i].pc = "done"]
    /\ Step("TranscribeError", "transcribe_worker")
    /\ UNCHANGED <<recVars, files, docVars, uiVars, today, mainVars, envVars, dequeued,
                   gets>>

\* lines 274-279: connection error, timeout or bad response
TranscribeError(i) ==
    /\ threads[i].kind = "transcribe"
    /\ threads[i].pc = "post"
    /\ Put(Item("error", ErrTranscription, NoData, i))
    /\ files' = files \ {i}
    /\ threads' = [threads EXCEPT ![i].pc = "done"]
    /\ Step("TranscribeError", "transcribe_worker")
    /\ UNCHANGED <<recVars, docVars, uiVars, today, mainVars, envVars, dequeued, gets>>

transcribe_audio_remote_thread(i) ==
    \/ \E u \in Utterances : TranscribeOk(i, u)
    \/ TranscribeError(i)

----------------------------------------------------------------------------
(* process_note_remote_thread, a statement group per step *)

\* lines 283-288: no macro loaded
NoteNoMacro(i) ==
    /\ threads[i].kind = "note"
    /\ threads[i].pc = "start"
    /\ active_macro_key = "None"
    /\ Put(Item("error", ErrNoMacro, NoData, i))
    /\ threads' = [threads EXCEPT ![i].pc = "done"]
    /\ Step("NoteNoMacro", "note_worker")
    /\ UNCHANGED <<recVars, files, docVars, uiVars, today, mainVars, envVars, dequeued,
                   gets>>

\* lines 283 and 290
NoteStart(i) ==
    /\ threads[i].kind = "note"
    /\ threads[i].pc = "start"
    /\ active_macro_key # "None"
    /\ status' = <<"Asking Gemini to process note...">>
    /\ threads' = [threads EXCEPT ![i].pc = "save_read"]
    /\ Step("NoteStart", "note_worker")
    /\ UNCHANGED <<recVars, files, queue, docVars, info, today, mainVars, envVars,
                   enqueued, dequeued, puts, gets>>

\* line 291, save_to_history line 165
NoteSaveRead(i) ==
    /\ threads[i].kind = "note"
    /\ threads[i].pc = "save_read"
    /\ threads' = [threads EXCEPT ![i].pc = "save_push",
                                  ![i].current = TextGet(text)]
    /\ Step("NoteSaveRead", "note_worker")
    /\ UNCHANGED <<recVars, files, queue, docVars, uiVars, today, mainVars, envVars,
                   enqueued, dequeued, puts, gets>>

\* line 291, save_to_history lines 166-168
NoteSavePush(i) ==
    /\ threads[i].kind = "note"
    /\ threads[i].pc = "save_push"
    /\ history' = HistoryAfterSave(history, threads[i].current)
    /\ redo_stack' = RedoAfterSave(history, redo_stack, threads[i].current)
    /\ threads' = [threads EXCEPT ![i].pc = "payload", ![i].current = <<>>]
    /\ Step("NoteSavePush", "note_worker")
    /\ UNCHANGED <<recVars, files, queue, text, active_macro_key,
                   field_confidence, uiVars, today, mainVars, envVars, enqueued,
                   dequeued, puts, gets>>

\* lines 293-297: the payload (its text goes to the service and nowhere else)
NotePayload(i) ==
    /\ threads[i].kind = "note"
    /\ threads[i].pc = "payload"
    /\ threads' = [threads EXCEPT ![i].pc = "post",
                                  ![i].macro_key = active_macro_key]
    /\ Step("NotePayload", "note_worker")
    /\ UNCHANGED <<recVars, files, queue, docVars, uiVars, today, mainVars, envVars,
                   enqueued, dequeued, puts, gets>>

\* lines 299-307: the service answered
NoteOk(i, data) ==
    /\ threads[i].kind = "note"
    /\ threads[i].pc = "post"
    /\ Put(Item("gemini_result", <<>>, data, i))
    /\ threads' = [threads EXCEPT ![i].pc = "done"]
    /\ Step("NoteOk", "note_worker")
    /\ UNCHANGED <<recVars, files, docVars, uiVars, today, mainVars, envVars, dequeued,
                   gets>>

\* lines 309-312
NoteError(i) ==
    /\ threads[i].kind = "note"
    /\ threads[i].pc = "post"
    /\ Put(Item("error", ErrGemini, NoData, i))
    /\ threads' = [threads EXCEPT ![i].pc = "done"]
    /\ Step("NoteError", "note_worker")
    /\ UNCHANGED <<recVars, files, docVars, uiVars, today, mainVars, envVars, dequeued,
                   gets>>

process_note_remote_thread(i) ==
    \/ NoteNoMacro(i)
    \/ NoteStart(i)
    \/ NoteSaveRead(i)
    \/ NoteSavePush(i)
    \/ NotePayload(i)
    \/ \E data \in Replies : NoteOk(i, data)
    \/ NoteError(i)

----------------------------------------------------------------------------
(* Menu, button and key handlers, run by Tk on the main thread *)

\* one more event of a menu, a button or Ctrl-Z / Ctrl-Y
Click ==
    /\ main_pc = "idle"
    /\ clicks < MaxClicks
    /\ clicks' = clicks + 1

undo ==
    /\ IF Len(history) > 1
       THEN /\ history' = DequePop(history)
            /\ redo_stack' = DequeAppend(redo_stack, Last(history))
            /\ text' = Last(DequePop(history))
            /\ status' = <<"Undo">>
       ELSE UNCHANGED <<history, redo_stack, text, status>>
    /\ Step("Undo", "consumer")
    /\ Click
    /\ UNCHANGED <<recVars, files, queue, active_macro_key, field_confidence,
                   info, today, mainVars, recordings, threads, enqueued, dequeued, puts,
                   gets>>

redo ==
    /\ IF redo_stack # <<>>
       THEN /\ redo_stack' = DequePop(redo_stack)
            /\ history' = DequeAppend(history, Last(redo_stack))
            /\ text' = Last(redo_stack)
            /\ status' = <<"Redo">>
       ELSE UNCHANGED <<history, redo_stack, text, status>>
    /\ Step("Redo", "consumer")
    /\ Click
    /\ UNCHANGED <<recVars, files, queue, active_macro_key, field_confidence,
                   info, today, mainVars, recordings, threads, enqueued, dequeued, puts,
                   gets>>

\* clear_all; confirmed is the answer to the askyesno dialog
clear_all(confirmed) ==
    /\ IF confirmed
       THEN /\ save_to_history
            /\ text' = <<>>
            /\ active_macro_key' = "None"
            /\ field_confidence' = EmptyConfidence
            /\ status' = <<"Cleared">>
       ELSE UNCHANGED <<docVars, status>>
    /\ Step(IF confirmed THEN "ClearAll" ELSE "ClearAllDeclined", "consumer")
    /\ Click
    /\ UNCHANGED <<recVars, files, queue, info, today, mainVars, recordings, threads,
                   enqueued, dequeued, puts, gets>>

\* copy_to_clipboard: the system clipboard is outside the state
copy_to_clipboard ==
    /\ status' = <<"Copied to clipboard!">>
    /\ Step("CopyToClipboard", "consumer")
    /\ Click
    /\ UNCHANGED <<recVars, files, queue, docVars, info, today, mainVars, recordings,
                   threads, enqueued, dequeued, puts, gets>>

\* show_empty_fields: a dialog, nothing of the state changes
show_empty_fields ==
    /\ Step("ShowEmptyFields", "consumer")
    /\ Click
    /\ UNCHANGED <<recVars, files, queue, docVars, uiVars, today, mainVars, recordings,
                   threads, enqueued, dequeued, puts, gets>>

\* validate_current_macro, lines 220-222: no macro, a dialog
ValidateNoMacro ==
    /\ active_macro_key = "None"
    /\ Step("ValidateNoMacro", "consumer")
    /\ Click
    /\ UNCHANGED <<recVars, files, queue, docVars, uiVars, today, mainVars,
                   recordings, threads, enqueued, dequeued, puts, gets>>

\* validate_current_macro, line 225: requests.get is called on the main
\* thread, which waits in it for the answer or the timeout
ValidateGet ==
    /\ active_macro_key # "None"
    /\ main_pc' = "validate_get"
    /\ Step("ValidateGet", "consumer")
    /\ Click
    /\ UNCHANGED <<recVars, files, queue, docVars, uiVars, today, armed,
                   recordings, threads, enqueued, dequeued, puts, gets>>

\* validate_current_macro, lines 226-235: the answer, an error or the timeout
\* came and a dialog shows it
ValidateDone ==
    /\ main_pc = "validate_get"
    /\ main_pc' = "idle"
    /\ Step("ValidateDone", "consumer")
    /\ UNCHANGED <<recVars, files, queue, docVars, uiVars, today, armed,
                   envVars, threads, enqueued, dequeued, puts, gets>>

validate_current_macro ==
    \/ ValidateNoMacro
    \/ ValidateGet
    \/ ValidateDone

----------------------------------------------------------------------------
(* process_command: the consumer's part of a tick on a transcription.  Each *)
(* branch leaves queue, dequeued and info to process_queue.                  *)

IsError(u) == u # <<>> /\ u[1] = "ERROR:"

IsProcessNote(u) == TextLower(u) = <<"process", "note">>

\* text_lower.startswith("insert ")
IsInsert(u) == Len(TextLower(u)) >= 2 /\ TextLower(u)[1] = "insert"

\* text_lower.split(" ", 1)[1].strip().replace(" ", "_")
MacroKey(u) == JoinUnderscore(Tail(TextLower(u)))

\* the places where the regular expression of line 374 can end its field group
\* on the raw text: (set|fill) field-words (to|is|as) value, case ignored
SetSplits(u) ==
    { i \in 3..(Len(u) - 1) :
        /\ Lower(u[1]) \in {"set", "fill"}
        /\ Lower(u[i]) \in {"to", "is", "as"}
        /\ \A j \in 2..(i - 1) : u[j] \notin {".", ","} }

IsSetField(u) == SetSplits(u) # {}

\* the field group is lazy: the first split that matches
SetSplit(u) == CHOOSE i \in SetSplits(u) : \A j \in SetSplits(u) : i <= j

\* the first group of the match
FieldWords(u) == SubSeq(u, 2, SetSplit(u) - 1)

\* f"{{{field.strip().replace(' ', '_')}}}"
SetPlaceholder(u) == Placeholder(JoinUnderscore(FieldWords(u)))

SetValue(u) == SubSeq(u, SetSplit(u) + 1, Len(u))

\* "{date}" replaced by the date read (lines 360-364 and 407-411)
WithDate(template, day) ==
    IF Contains(template, "{date}")
    THEN ReplaceAll(template, "{date}", <<DateStr(day)>>)
    ELSE template

\* datetime.now() is read when the template holds "{date}": midnight may have
\* passed since the clock was last read
Now(template, day) ==
    /\ day \in today..MaxDay
    /\ Contains(template, "{date}") \/ day = today
    /\ today' = day

\* lines 338-340
CommandError(u) ==
    /\ IsError(u)
    /\ status' = u
    /\ Step("CommandError", "consumer")
    /\ UNCHANGED <<docVars, threads, today>>

\* lines 345-350
CommandProcessNote(u) ==
    /\ ~IsError(u)
    /\ IsProcessNote(u)
    /\ threads' = Append(threads, Thread("note"))
    /\ Step("ProcessNote", "consumer")
    /\ UNCHANGED <<docVars, status, today>>

\* an insert that puts the template in front of the text it finds
CommandInsertNoDelete(u) ==
    /\ ~IsError(u) /\ ~IsProcessNote(u)
    /\ IsInsert(u)
    /\ save_to_history
    /\ IF MacroKey(u) \in DOMAIN macros
       THEN /\ active_macro_key' = MacroKey(u)
            /\ field_confidence' = EmptyConfidence
            /\ \E day \in 1..MaxDay :
                  /\ Now(macros[MacroKey(u)], day)
                  /\ text' = WithDate(macros[MacroKey(u)], day) \o text
            /\ status' = <<"Inserted macro:", MacroKey(u)>>
            /\ Step("InsertMacro", "consumer")
       ELSE /\ status' = <<"Macro not found:", MacroKey(u)>>
            /\ Step("InsertUnknown", "consumer")
            /\ UNCHANGED <<active_macro_key, field_confidence, text, today>>
    /\ UNCHANGED threads

\* lines 353-370
CommandInsert(u) ==
    /\ ~IsError(u) /\ ~IsProcessNote(u)
    /\ IsInsert(u)
    /\ save_to_history
    /\ IF MacroKey(u) \in DOMAIN macros
       THEN /\ active_macro_key' = MacroKey(u)
            /\ field_confidence' = EmptyConfidence
            /\ \E day \in 1..MaxDay :
                  /\ Now(macros[MacroKey(u)], day)
                  /\ text' = WithDate(macros[MacroKey(u)], day)
            /\ status' = <<"Inserted macro:", MacroKey(u)>>
            /\ Step("InsertMacro", "consumer")
       ELSE /\ status' = <<"Macro not found:", MacroKey(u)>>
            /\ Step("InsertUnknown", "consumer")
            /\ UNCHANGED <<active_macro_key, field_confidence, text, today>>
    /\ UNCHANGED threads

\* lines 373-388
CommandSetField(u) ==
    /\ ~IsError(u) /\ ~IsProcessNote(u) /\ ~IsInsert(u)
    /\ IsSetField(u)
    /\ save_to_history
    /\ IF Contains(TextGet(text), SetPlaceholder(u))
       THEN /\ text' = ReplaceFirst(TextGet(text), SetPlaceholder(u),
                                     SetValue(u))
            /\ status' = <<"Filled field">> \o FieldWords(u)
            /\ Step("SetField", "consumer")
       ELSE /\ Step("SetFieldNotFound", "consumer")
            /\ UNCHANGED <<text, status>>
    /\ UNCHANGED <<active_macro_key, field_confidence, threads, today>>

\* lines 390-393
CommandAppend(u) ==
    /\ ~IsError(u) /\ ~IsProcessNote(u) /\ ~IsInsert(u) /\ ~IsSetField(u)
    /\ save_to_history
    /\ text' = text \o <<" ">> \o u
    /\ status' = <<"Text appended">>
    /\ Step("AppendText", "consumer")
    /\ UNCHANGED <<active_macro_key, field_confidence, threads, today>>

process_command(u) ==
    \/ CommandError(u)
    \/ CommandProcessNote(u)
    \/ CommandInsert(u)
    \/ CommandSetField(u)
    \/ CommandAppend(u)

----------------------------------------------------------------------------
(* _apply_gemini_result *)

\* lines 416-421
FieldValue(fd) == fd.value
FieldConfidence(fd) == IF fd.dict THEN fd.confidence ELSE 10

RECURSIVE MergeFields(_, _)
\* the loop of lines 415-424 on updated_text
MergeFields(updated_text, fields) ==
    IF fields = <<>> THEN updated_text
    ELSE MergeFields(
             IF FieldValue(Head(fields)) # ""
             THEN ReplaceAll(updated_text, Placeholder(Head(fields).key),
                             <<FieldValue(Head(fields))>>)
             ELSE updated_text,
             Tail(fields))

\* the loop of lines 414-425 on field_confidence
MergeConfidence(fields) ==
    LET kept == {i \in 1..Len(fields) : FieldValue(fields[i]) # ""}
    IN  [k \in {fields[i].key : i \in kept} |->
            FieldConfidence(fields[CHOOSE i \in kept :
                /\ fields[i].key = k
                /\ \A j \in kept : fields[j].key = k => j <= i])]

\* lines 397-398
GeminiSkipped ==
    active_macro_key = "None" \/ active_macro_key \notin DOMAIN macros

\* lines 400-415 when "fields" is no JSON object: the date is read, the
\* confidence map is cleared and fields.items() raises AttributeError
ApplyRaises ==
    /\ \E day \in 1..MaxDay : Now(macros[active_macro_key], day)
    /\ field_confidence' = EmptyConfidence
    /\ Step("GeminiRaised", "consumer")
    /\ UNCHANGED <<text, active_macro_key, history, redo_stack, uiVars>>

\* a reply carrying a request tag, dropped when the macro changed since
apply_if_current(data) ==
    IF \/ GeminiSkipped
       \/ threads[get_nowait(queue).item.req].macro_key # active_macro_key
    THEN /\ Step("GeminiSkipped", "consumer")
         /\ UNCHANGED <<docVars, uiVars, today>>
    ELSE IF ~data.dict THEN ApplyRaises
    ELSE /\ \E day \in 1..MaxDay :
               /\ Now(macros[active_macro_key], day)
               /\ text' = MergeFields(WithDate(macros[active_macro_key], day),
                                      data.fields)
         /\ field_confidence' = MergeConfidence(data.fields)
         /\ status' = <<"Gemini complete">>
         /\ info' = "Review yellow-highlighted fields"
         /\ Step("GeminiResult", "consumer")
         /\ UNCHANGED <<active_macro_key, history, redo_stack>>

\* a merge into the text on display instead of the template
apply_to_live_text(data) ==
    IF GeminiSkipped
    THEN /\ Step("GeminiSkipped", "consumer")
         /\ UNCHANGED <<docVars, uiVars, today>>
    ELSE IF ~data.dict THEN ApplyRaises
    ELSE /\ \E day \in 1..MaxDay :
               /\ Now(macros[active_macro_key], day)
               /\ text' = MergeFields(WithDate(text, day), data.fields)
         /\ field_confidence' = MergeConfidence(data.fields)
         /\ status' = <<"Gemini complete">>
         /\ info' = "Review yellow-highlighted fields"
         /\ Step("GeminiResult", "consumer")
         /\ UNCHANGED <<active_macro_key, history, redo_stack>>

\* lines 395-439
_apply_gemini_result(data) ==
    IF GeminiSkipped
    THEN /\ Step("GeminiSkipped", "consumer")
         /\ UNCHANGED <<docVars, uiVars, today>>
    ELSE IF ~data.dict THEN ApplyRaises
    ELSE /\ \E day \in 1..MaxDay :
               /\ Now(macros[active_macro_key], day)
               /\ text' = MergeFields(WithDate(macros[active_macro_key], day),
                                      data.fields)
         /\ field_confidence' = MergeConfidence(data.fields)
         /\ status' = <<"Gemini complete">>
         /\ info' = "Review yellow-highlighted fields"
         /\ Step("GeminiResult", "consumer")
         /\ UNCHANGED <<active_macro_key, history, redo_stack>>

----------------------------------------------------------------------------
(* process_queue: one tick of the consumer *)

\* Tk runs the pending call when the main thread is in its loop
TickStarts == armed /\ main_pc = "idle"

\* the next tick requested as the last statement of the try body: skipped
\* when applying the result raised
RearmUnlessRaised == armed' = (last'.cmd # "GeminiRaised") /\ UNCHANGED main_pc

\* line 334, the finally clause
Rearm == armed' = TRUE /\ UNCHANGED main_pc

Dequeue ==
    /\ queue # <<>>
    /\ queue' = get_nowait(queue).rest
    /\ dequeued' = dequeued + 1
    /\ gets' = [gets EXCEPT ![get_nowait(queue).item.req] = @ + 1]

\* lines 319-323
TickTranscription ==
    /\ TickStarts
    /\ Dequeue
    /\ get_nowait(queue).item.type = "transcription"
    /\ process_command(get_nowait(queue).item.text)
    /\ info' = "Transcribed"
    /\ Rearm
    /\ UNCHANGED <<recVars, files, envVars, enqueued, puts>>

\* lines 325-326
TickGemini ==
    /\ TickStarts
    /\ Dequeue
    /\ get_nowait(queue).item.type = "gemini_result"
    /\ _apply_gemini_result(get_nowait(queue).item.data)
    /\ Rearm
    /\ UNCHANGED <<recVars, files, envVars, threads, enqueued, puts>>

\* an error written into the document as well as onto the status line
ShowErrorInText(result) ==
    /\ status' = result.text
    /\ text' = text \o result.text
    /\ UNCHANGED <<active_macro_key, field_confidence, history, redo_stack,
                   info>>

\* lines 328-329
ShowError(result) ==
    /\ status' = result.text
    /\ UNCHANGED <<docVars, info>>

TickError ==
    /\ TickStarts
    /\ Dequeue
    /\ get_nowait(queue).item.type = "error"
    /\ ShowError(get_nowait(queue).item)
    /\ Step("QueueError", "consumer")
    /\ Rearm
    /\ UNCHANGED <<recVars, files, today, envVars, threads, enqueued, puts>>

\* lines 331-332: queue.Empty
TickEmpty ==
    /\ TickStarts
    /\ queue = <<>>
    /\ Step("QueueEmpty", "consumer")
    /\ Rearm
    /\ UNCHANGED <<recVars, files, queue, docVars, uiVars, today, envVars,
                   threads, enqueued, dequeued, puts, gets>>

process_queue ==
    \/ TickTranscription
    \/ TickGemini
    \/ TickError
    \/ TickEmpty

----------------------------------------------------------------------------
Next ==
    \/ ToggleRecordingOn
    \/ AudioCallback
    \/ ToggleRecordingOff
    \/ \E i \in 1..Len(threads) : transcribe_audio_remote_thread(i)
    \/ \E i \in 1..Len(threads) : process_note_remote_thread(i)
    \/ process_queue
    \/ undo
    \/ redo
    \/ \E confirmed \in BOOLEAN : clear_all(confirmed)
    \/ copy_to_clipboard
    \/ show_empty_fields
    \/ validate_current_macro

Spec == Init /\ [][Next]_vars

\* Tk runs a pending after() call once the main thread is back in its loop,
\* and the validation request returns: it carries a timeout (line 225)
FairSpec == Spec /\ WF_vars(process_queue) /\ WF_vars(ValidateDone)

----------------------------------------------------------------------------
(* A session in progress: the first recording, "Insert exam.", has been     *)
(* transcribed and processed and n recordings are counted for it.            *)
SessionState(n) ==
    /\ is_recording = FALSE
    /\ stream = "stopped"
    /\ frames = TRUE
    /\ files = {}
    /\ queue = <<>>
    /\ active_macro_key = "exam"
    /\ field_confidence = EmptyConfidence
    /\ history = <<TextGet(<<>>)>>
    /\ redo_stack = <<>>
    /\ text = WithDate(macros["exam"], 1)
    /\ status = <<"Inserted macro:", "exam">>
    /\ info = "Transcribed"
    /\ today = 1
    /\ recordings = n
    /\ clicks = 0
    /\ threads = <<[Thread("transcribe") EXCEPT !.pc = "done"]>>
    /\ main_pc = "idle"
    /\ armed = TRUE
    /\ last = [cmd |-> "InsertMacro", ctx |-> "consumer",
               item |-> [Item("transcription", <<"Insert", "exam", ".">>,
                              NoData, 1) EXCEPT !.seq = 1]]
    /\ pre = [text |-> <<>>, active_macro_key |-> "None",
              field_confidence |-> EmptyConfidence, history |-> <<>>,
              redo_stack |-> <<>>]
    /\ enqueued = 1
    /\ dequeued = 1
    /\ puts = [i \in 1..MaxThreads |-> IF i = 1 THEN 1 ELSE 0]
    /\ gets = [i \in 1..MaxThreads |-> IF i = 1 THEN 1 ELSE 0]

\* the session state as Spec reaches it
SessionReached == SessionState(1)

\* the session state as a starting point: MaxRecordings more recordings follow
InitSession == SessionState(0)

SessionSpec == InitSession /\ [][Next]_vars

----------------------------------------------------------------------------
(* Properties of the undo history                                           *)

\* the commands that change the document
MutatingCommands ==
    {"InsertMacro", "SetField", "AppendText", "NoteSavePush", "ClearAll"}

\* the mutating commands that process_command applies
Mutations == {"InsertMacro", "SetField", "AppendText"}

\* two buffer texts are the same up to the newline the text widget adds
SameBuffer(a, b) == a = b \/ a = TextGet(b) \/ TextGet(a) = b

\* C1: an Undo that directly follows a mutating command (insert, set, append)
\* puts back the text that was on display before that mutation, and an Undo
\* with an empty history changes nothing.
C1_UndoOneStepBack ==
    [][last'.cmd = "Undo" =>
          /\ last.cmd \in Mutations => SameBuffer(text', pre.text)
          /\ history = <<>> => UNCHANGED docVars]_vars

\* C2: a Redo that directly follows an Undo which took effect puts back the
\* text that was on display before that Undo.
C2_RedoInvertsUndo ==
    [][(last'.cmd = "Redo" /\ last.cmd = "Undo" /\ pre.history # history)
          => SameBuffer(text', pre.text)]_vars

\* C3: right after any mutating command (an insert, a set, an append, the
\* snapshot of a process note, a clear) the redo stack is empty.
C3_MutationClearsRedo == last.cmd \in MutatingCommands => redo_stack = <<>>

\* C4: a command that fails validation (unknown macro, placeholder absent,
\* process note without an active macro) leaves text, active macro, field
\* confidence, history and redo stack as they were.
C4_FailedCommandChangesNothing ==
    last.cmd \in {"InsertUnknown", "SetFieldNotFound", "NoteNoMacro"}
        => Document = pre

\* C5: a step taken outside the consumer (by a transcription worker, a note
\* worker, the keyboard listener or the audio callback) leaves text, active
\* macro, field confidence, history and redo stack as they were.
C5_WorkersLeaveDocument == last.ctx # "consumer" => Document = pre

----------------------------------------------------------------------------
(* Properties of the result queue                                           *)

\* the results of thread i waiting in the queue
InQueue(i) == Cardinality({k \in 1..Len(queue) : queue[k].req = i})

\* C6: every request thread enqueues exactly one result: none before it
\* finishes, one when it has, never two; an unfinished thread can always take
\* its next step; each result is either waiting in the queue or has been
\* dequeued once, and a waiting result can be dequeued whenever the main
\* thread is in its loop.
C6_ExactlyOneResult ==
    /\ \A i \in 1..MaxThreads :
          /\ puts[i] <= 1
          /\ gets[i] + InQueue(i) = puts[i]
          /\ i > Len(threads) => puts[i] = 0
    /\ \A i \in 1..Len(threads) :
          /\ puts[i] = 1 <=> threads[i].pc = "done"
          /\ threads[i].pc # "done" =>
                ENABLED (transcribe_audio_remote_thread(i)
                             \/ process_note_remote_thread(i))
    /\ (queue # <<>> /\ main_pc = "idle")
          => ENABLED (TickTranscription \/ TickGemini \/ TickError)

\* two results of different threads went through the queue, one consumed and
\* one still waiting
C6_Witness ==
    \E i, j \in 1..Len(threads) :
        /\ i # j
        /\ threads[i].pc = "done" /\ gets[i] = 1
        /\ threads[j].pc = "done" /\ InQueue(j) = 1

\* C7: results leave the queue in the order they arrived: the waiting results
\* carry consecutive arrival stamps that follow the number dequeued, and the
\* item a tick applied is the one that arrived next.
C7_ArrivalOrder ==
    /\ \A k \in 1..Len(queue) : queue[k].seq = dequeued + k
    /\ last.cmd \in TickCommands => last.item.seq = dequeued

\* a tick applied the result of a later request while the result of an
\* earlier request, which arrived after it, is still waiting
C7_Witness ==
    /\ last.cmd \in TickCommands
    /\ \E k \in 1..Len(queue) : queue[k].req < last.item.req

\* the value a reply gives for a template token, if any
ReplyValues(fields, tok) ==
    {fields[i].value : i \in {j \in 1..Len(fields) :
        Placeholder(fields[j].key) = tok /\ fields[j].value # ""}}

\* the token the merge leaves where the canonical template has tok
Merged(tok, fields, day) ==
    IF tok = "{date}" THEN DateStr(day)
    ELSE IF ReplyValues(fields, tok) # {}
         THEN CHOOSE v \in ReplyValues(fields, tok) : TRUE
         ELSE tok

\* C8: after a reply was applied the text is the active macro's template,
\* token by token, with "{date}" replaced by today's date and each placeholder
\* replaced by the reply's value for it; nothing of the text on display before
\* survives, and the snapshot stacks are as before.
C8_MergeFromTemplate ==
    last.cmd = "GeminiResult" =>
        /\ Len(text) = Len(macros[active_macro_key])
        /\ \A p \in 1..Len(text) :
              text[p] = Merged(macros[active_macro_key][p],
                               last.item.data.fields, today)
        /\ history = pre.history /\ redo_stack = pre.redo_stack

\* a reply was applied over a field the user had filled by hand
C8_Witness ==
    /\ last.cmd = "GeminiResult"
    /\ Contains(pre.text, "jane")
    /\ Contains(text, "bob") /\ ~Contains(text, "jane")

\* C9: after a tick dequeued an error result (an item of type error, or a
\* transcription that carries an error text), the status line shows its text
\* and text, active macro, field confidence, history and redo stack are as
\* they were before the tick.
C9_ErrorOnlyOnStatus ==
    last.cmd \in {"QueueError", "CommandError"} =>
        status = last.item.text /\ Document = pre

\* an error was dequeued while a filled-in document was on display
C9_Witness ==
    /\ last.cmd = "QueueError"
    /\ status = ErrGemini
    /\ active_macro_key # "None" /\ history # <<>> /\ text # <<>>

\* C10: a tick removes at most one item from the queue, a tick that finds the
\* queue empty changes nothing of the program, and that tick does not wait
\* for an item: it can run whenever the main thread is in its loop.
C10_OneItemPerTick ==
    [][/\ (queue = <<>> /\ main_pc = "idle") => ENABLED TickEmpty
       /\ last'.cmd \in TickCommands \cup {"QueueEmpty"} =>
             /\ Len(queue') >= Len(queue) - 1
             /\ dequeued' <= dequeued + 1
             /\ queue = <<>> =>
                   UNCHANGED <<recVars, files, queue, docVars, uiVars, today,
                               envVars, threads, mainVars, enqueued,
                               dequeued, puts, gets>>]_vars

\* a tick took one item and left another waiting
C10_Witness ==
    /\ last.cmd \in TickCommands
    /\ queue # <<>>
    /\ dequeued >= 1

----------------------------------------------------------------------------
(* Properties of the document                                               *)

\* C11: every key of the field confidence map names a placeholder of the
\* active macro's template; with no macro active the map is empty.
C11_ConfidenceKeysInTemplate ==
    \A k \in DOMAIN field_confidence :
        /\ active_macro_key \in DOMAIN macros
        /\ Contains(macros[active_macro_key], Placeholder(k))

\* the transcription workers that have not finished
RunningTranscriptions ==
    {i \in 1..Len(threads) :
        threads[i].kind = "transcribe" /\ threads[i].pc # "done"}

\* C12: a temporary audio file exists exactly while the transcription worker
\* it was handed to is running: once the worker has finished, whether the
\* service answered or failed, its file is gone.
C12_NoFileOutlivesWorker == files = RunningTranscriptions

\* a worker finished on the failure path while another still holds its file
C12_Witness ==
    /\ last.cmd = "TranscribeError"
    /\ files # {}
    /\ \E i \in 1..Len(threads) :
          threads[i].kind = "transcribe" /\ threads[i].pc = "done"

\* C13: history and redo stack never hold more entries than the capacity of
\* their deque, and a push onto a full history drops its oldest entry and
\* keeps the others below the new one.
C13_BoundedStacks ==
    /\ Len(history) <= HistoryMaxLen
    /\ Len(redo_stack) <= HistoryMaxLen
    /\ (/\ Len(pre.history) = HistoryMaxLen
        /\ Len(history) = HistoryMaxLen
        /\ history # pre.history)
           => SubSeq(history, 1, HistoryMaxLen - 1) = Tail(pre.history)

\* a snapshot was pushed onto a full history
C13_Witness ==
    /\ Len(pre.history) = HistoryMaxLen
    /\ Len(history) = HistoryMaxLen
    /\ Last(history) # Last(pre.history)
    /\ history[1] = pre.history[2]

\* the commands that call save_to_history on the text they find
SavingCommands ==
    {"InsertMacro", "InsertUnknown", "SetField", "SetFieldNotFound",
     "AppendText", "ClearAll"}

\* C14: the history never holds two equal snapshots next to each other, and a
\* command that finds the text equal to the newest snapshot adds no entry.
C14_NoAdjacentDuplicates ==
    /\ \A i \in 1..(Len(history) - 1) : history[i] # history[i + 1]
    /\ (/\ last.cmd \in SavingCommands
        /\ pre.history # <<>>
        /\ Last(pre.history) = TextGet(pre.text))
           => history = pre.history

\* a command found the text equal to the newest snapshot and pushed nothing
C14_Witness ==
    /\ last.cmd \in SavingCommands
    /\ pre.history # <<>>
    /\ Last(pre.history) = TextGet(pre.text)
    /\ history = pre.history

\* the step inserts the macro that the step before it inserted
InsertRepeated ==
    /\ last.cmd = "InsertMacro"
    /\ last'.cmd = "InsertMacro"
    /\ active_macro_key' = active_macro_key

\* C15 as stated: inserting the same macro twice in a row gives the same text
\* the second time as the first.
C15_InsertTwiceSameText == [][InsertRepeated => text' = text]_vars

\* C15, amended: inserting the same macro twice in a row gives the same text
\* the second time as the first when both inserts read the same date.
C15_InsertTwiceSameDay ==
    [][(InsertRepeated /\ today' = today) => text' = text]_vars

\* the same dated macro was inserted twice and the text came out the same
C15_Witness ==
    /\ last.cmd = "InsertMacro"
    /\ dequeued = 2
    /\ pre.active_macro_key = active_macro_key
    /\ pre.text = text
    /\ Contains(text, DateStr(today))

----------------------------------------------------------------------------
(* Properties of command routing                                            *)

\* the exact command literals, lower-cased and without punctuation
CommandLiterals ==
    { <<"process", "note">>, <<"undo">>, <<"redo">>, <<"scratch", "that">>,
      <<"clear", "buffer">>, <<"clear", "all">> }

\* C16: a transcription that equals a command literal (case ignored, full
\* stops and commas dropped) is never appended to the text, and "process
\* note" starts a note worker.
C16_LiteralsAreRouted ==
    (/\ last.item.type = "transcription"
     /\ TextLower(last.item.text) \in CommandLiterals)
        => /\ last.cmd # "AppendText"
           /\ TextLower(last.item.text) = <<"process", "note">>
                 => last.cmd = "ProcessNote"

----------------------------------------------------------------------------
(* Properties of the recorder                                               *)

\* C17: stopping a recording that captured no frames puts an error on the
\* status line, starts no thread, enqueues nothing, creates no file, leaves
\* the document as it was and leaves the recorder idle.
C17_EmptyRecordingReported ==
    [][(last'.cmd = "ToggleRecordingOff" /\ is_recording /\ ~frames) =>
          /\ IsError(status')
          /\ UNCHANGED <<threads, queue, files, docVars>>
          /\ ~is_recording' /\ stream' # "running"]_vars

----------------------------------------------------------------------------
(* Properties of stale replies                                              *)

\* the well-formed reply just dequeued was requested under another macro than
\* the one now active
StaleReply ==
    /\ last.item.type = "gemini_result"
    /\ last.item.data.dict
    /\ active_macro_key \in DOMAIN macros
    /\ threads[last.item.req].macro_key # active_macro_key

\* C18: a reply requested under one macro and dequeued while another macro is
\* active is not dropped: its values are merged into the template of the
\* macro active now.
C18_StaleReplyApplies ==
    StaleReply =>
        /\ last.cmd = "GeminiResult"
        /\ Len(text) = Len(macros[active_macro_key])
        /\ \A p \in 1..Len(text) :
              text[p] = Merged(macros[active_macro_key][p],
                               last.item.data.fields, today)

\* a reply requested under the exam macro filled the visit template
C18_Witness ==
    /\ StaleReply
    /\ threads[last.item.req].macro_key = "exam"
    /\ active_macro_key = "visit"
    /\ Contains(text, "flu")

----------------------------------------------------------------------------
(* Properties of the main thread                                            *)

\* the steps that wait for a reply of the server
NetworkCalls ==
    {"TranscribeOk", "TranscribeError", "NoteOk", "NoteError", "ValidateGet"}

\* C19: the thread that runs the queue ticks and the interactive handlers
\* never waits in a network call: every call to the server is a step of a
\* worker thread, and the main thread is never blocked.
C19_MainThreadNeverBlocks ==
    /\ last.cmd \in NetworkCalls
          => last.ctx \in {"transcribe_worker", "note_worker"}
    /\ main_pc = "idle"

----------------------------------------------------------------------------
(* Properties of the consumer loop                                          *)

\* C20: with ticks scheduled fairly, every result put on the queue is
\* eventually dequeued and handed to its handler, and a next tick is pending
\* after every tick: after one that found the queue empty and after one whose
\* handler raised as well.
C20_EveryResultApplied ==
    /\ []armed
    /\ \A n \in 1..MaxThreads : (enqueued >= n) ~> (dequeued >= n)

\* applying a malformed reply raised; every result put so far has been
\* dequeued and the next tick is pending
C20_Witness ==
    /\ last.cmd = "GeminiRaised"
    /\ ~last.item.data.dict
    /\ dequeued = enqueued
    /\ queue = <<>>
    /\ armed

----------------------------------------------------------------------------
(* Properties of the frame of undo and redo                                 *)

\* an Undo or a Redo step leaves the active macro and the field confidences
\* as they were
UndoRedoKeepMacro ==
    last'.cmd \in {"Undo", "Redo"}
        => UNCHANGED <<active_macro_key, field_confidence>>

\* C21: an Undo or a Redo leaves the active macro and the field confidences
\* as they were, and an Undo that directly follows the insertion of a macro
\* puts back the text from before the insertion while the inserted macro stays
\* the active one.
C21_UndoRedoFrame ==
    [][/\ UndoRedoKeepMacro
       /\ (last'.cmd = "Undo" /\ last.cmd = "InsertMacro")
             => /\ SameBuffer(text', pre.text)
                /\ active_macro_key' = active_macro_key]_vars

====
